---- MODULE Spec2Model ----
(***************************************************************************)
(* lftes: a lock-free multi-producer / multi-consumer event log.  A fixed  *)
(* array of slots moves through Free -> Claimed -> Published -> Sequenced. *)
(* Producers claim by CAS on the slot state and publish, the sequencer     *)
(* thread stamps sequence numbers in slot-index order, consumers read      *)
(* Sequenced slots at their own cursor.                                    *)
(*                                                                         *)
(* Every atomic load, store, CAS and fetch_add of the source is one step   *)
(* of the model; threads interleave between steps (sequential consistency).*)
(***************************************************************************)
EXTENDS Naturals, Integers, Sequences, FiniteSets, TLC

(***************************************************************************)
(* Bounds of the model.                                                    *)
(***************************************************************************)
CapLog == 1            \* capacity is 2^CapLog slots
NumProducers == 2      \* producer threads
NumConsumers == 2      \* consumer handles
MaxVal == 2            \* payloads pushed are 1..MaxVal
ExtraPushes == 1       \* push calls started beyond the capacity
MaxSmallRequest == 1024 \* build is tried on every capacity 0..MaxSmallRequest

(***************************************************************************)
(* Program constants.                                                      *)
(***************************************************************************)
\* slot.rs: enum SlotState, repr(u8)
Free == 0
Claimed == 1
Published == 2
Sequenced == 3

\* producer.rs: const MAX_SPIN (10000 in the source; scaled down here, its
\* value only decides when the backoff calls yield_now)
MAX_SPIN == 1

\* buffer.rs: Buffer::new, capacity and mask = capacity - 1
Capacity == 2 ^ CapLog
Mask == Capacity - 1

Producers == 1 .. NumProducers
Consumers == 1 .. NumConsumers
SeqIds == {"first"}
SlotIdx == 0 .. (Capacity - 1)
Values == 1 .. MaxVal
MaxPushes == Capacity + ExtraPushes

\* MaybeUninit<T>: a payload cell is the set of values written to it, empty
\* for MaybeUninit::uninit()
Uninit == {}

\* usize `&`
RECURSIVE BitAnd(_, _)
BitAnd(a, b) ==
    IF a = 0 \/ b = 0 THEN 0
    ELSE (a % 2) * (b % 2) + 2 * BitAnd(a \div 2, b \div 2)

\* slot.rs: Slot::new
NewSlot ==
    [state |-> Free, producer_id |-> 0, sequence |-> 0, timestamp |-> 0,
     payload |-> Uninit]

\* buffer.rs: Buffer::producer hands every producer the id 0
ProducerId(p) == 0

(***************************************************************************)
(* usize arithmetic of Buffer::new.  A usize is the set of the positions   *)
(* of its one bits, so that every capacity up to 2^64 - 1 can be written   *)
(* down, 1 << 31 and beyond included.                                      *)
(***************************************************************************)
UsizeBits == 64
Bits == 0 .. (UsizeBits - 1)

\* the usize of a small number
RECURSIVE BitsFrom(_, _)
BitsFrom(n, i) ==
    IF n = 0 THEN {}
    ELSE (IF n % 2 = 1 THEN {i} ELSE {}) \cup BitsFrom(n \div 2, i + 1)

Usize(n) == BitsFrom(n, 0)

\* usize `<<`
Shl(x, n) == {i + n : i \in x} \cap Bits

\* usize `>`: the highest bit in which the two differ is set in a
Gt(a, b) ==
    LET diff == (a \ b) \cup (b \ a) IN
      /\ diff # {}
      /\ (CHOOSE m \in diff : \A k \in diff : k <= m) \in a

\* usize `- 1` (wrapping at zero): the lowest one bit is cleared and every
\* bit below it set
SubOne(x) ==
    IF x = {} THEN Bits
    ELSE LET low == CHOOSE l \in x : \A k \in x : l <= k IN
           (x \ {low}) \cup (0 .. (low - 1))

\* x & (x - 1) == 0, which takes zero for a power of two
IsPowerOfTwoOrZero(x) == x \cap SubOne(x) = {}

\* usize::is_power_of_two: exactly one bit is set
IsPowerOfTwo(x) == Cardinality(x) = 1

\* buffer.rs: const MAX_CAPACITY: usize = 1 << 30
MAX_CAPACITY == Shl(Usize(1), 30)

\* capacity >= MAX_CAPACITY
AtOrOverMax(capacity) == capacity = MAX_CAPACITY \/ Gt(capacity, MAX_CAPACITY)

\* Buffer::new: capacity > MAX_CAPACITY
OverMax(capacity) == Gt(capacity, MAX_CAPACITY)

\* Buffer::new: the Result it returns; buffer is the Buffer of an Ok, as a
\* sequence of length one, and empty for an Err
NewBuffer(capacity) ==
    IF ~IsPowerOfTwo(capacity)
    THEN [result |-> "InvalidCapacity", buffer |-> <<>>]
    ELSE IF OverMax(capacity)
    THEN [result |-> "TooLarge", buffer |-> <<>>]
    ELSE [result |-> "Ok",
          buffer |-> <<[capacity |-> capacity, mask |-> SubOne(capacity),
                        head |-> 0]>>]

\* BufferBuilder::build: self.capacity.unwrap_or(1024); an Option<usize> is
\* a sequence, empty for None
DefaultCapacity == 1024
BuilderBuild(capacity) ==
    NewBuffer(IF capacity = <<>> THEN Usize(DefaultCapacity) ELSE capacity[1])

\* BufferBuilder::new
NewBuilder ==
    [pc |-> "builder", capacity |-> <<>>,
     ret |-> [result |-> "none", buffer |-> <<>>]]

\* the capacities build is tried on: every small number, and every usize
\* with one or two bits set
Requests ==
    {Usize(n) : n \in 0 .. MaxSmallRequest} \cup {{i, j} : i, j \in Bits}

VARIABLES
    build,      \* the BufferBuilder, and what its build() returned
    slots,      \* buffer.slots : index -> slot record
    head,       \* buffer.head
    clock,      \* the timestamp source
    prod,       \* per producer thread: position in push/claim and its locals
    seqr,       \* per sequencer thread: position in sequencer_loop and locals
    stop,       \* per sequencer handle: the stop flag
    handle,     \* per sequencer: what has become of its SequencerHandle
    cons,       \* per consumer: cursor, position in try_next and its locals
    completed,  \* history: the push calls that returned, in order of return,
                \* each with its value, slot, timestamp and producer id
    claims,     \* history: per slot, the producers whose CAS succeeded
    promotions, \* history: the (slot, sequence) stamped at each promotion
    received    \* history: per consumer, the events try_next returned

vars == <<build, slots, head, clock, prod, seqr, stop, handle, cons,
          completed, claims, promotions, received>>

\* pos is the head value the call last read, -1 before its first read
NewProducer ==
    [pc |-> "idle", pos |-> -1, slot_idx |-> 0, attempts |-> 0, event |-> 0,
     ts |-> 0, result |-> "none"]

NewSequencer ==
    [pc |-> "unstarted", next_seq |-> 0, scan_pos |-> 0]

\* consumer.rs: Consumer::new
NewConsumer ==
    [pc |-> "idle", cursor |-> 0, slot_idx |-> 0, seq |-> 0]

\* the buffer the threads run on came from builder().capacity(c).build()
BuiltWith(c) ==
    [pc |-> "returned", capacity |-> <<c>>, ret |-> BuilderBuild(<<c>>)]

\* the threads and handles before anything has run
NoThreads ==
    /\ prod = [p \in Producers |-> NewProducer]
    /\ seqr = [s \in SeqIds |-> NewSequencer]
    /\ stop = [s \in SeqIds |-> FALSE]
    /\ handle = [s \in SeqIds |-> "none"]
    /\ cons = [c \in Consumers |-> NewConsumer]
    /\ completed = <<>>
    /\ claims = [i \in SlotIdx |-> <<>>]
    /\ promotions = <<>>
    /\ received = [c \in Consumers |-> <<>>]

Init ==
    /\ build = BuiltWith(Usize(Capacity))
    /\ slots = [i \in SlotIdx |-> NewSlot]
    /\ head = 0
    /\ clock = 1
    /\ NoThreads

\* before build: a builder, and no buffer yet
BuildInit ==
    /\ build = NewBuilder
    /\ slots = <<>>
    /\ head = 0
    /\ clock = 1
    /\ NoThreads

NumCompleted == Len(completed)
InFlight == {p \in Producers : prod[p].pc # "idle"}

(***************************************************************************)
(* Producer::push / Producer::claim                                        *)
(***************************************************************************)
\* a thread calls producer.push(v)
P_Push(p, v) ==
    /\ prod[p].pc = "idle"
    /\ NumCompleted + Cardinality(InFlight) < MaxPushes
    /\ prod' = [prod EXCEPT ![p].pc = "load_head", ![p].event = v,
                            ![p].attempts = 0, ![p].result = "none"]
    /\ UNCHANGED <<slots, head, clock, seqr, stop, cons,
                   completed, claims, promotions, received, handle,
                   build>>

\* claim: pos = head.load(); slot_idx = pos & mask
P_LoadHead(p) ==
    /\ prod[p].pc = "load_head"
    /\ prod' = [prod EXCEPT ![p].pc = "load_state",
                            ![p].pos = head,
                            ![p].slot_idx = BitAnd(head, Mask)]
    /\ UNCHANGED <<slots, head, clock, seqr, stop, cons,
                   completed, claims, promotions, received, handle,
                   build>>

\* claim: attempts after one more pass through the backpressure branch
Backoff(attempts) ==
    IF attempts + 1 > MAX_SPIN THEN 0 ELSE attempts + 1

\* a bounded wait: give up with BufferFull once the spin budget is spent
BackpressureGivesUp(attempts) ==
    IF attempts + 1 > MAX_SPIN
    THEN [pc |-> "idle", result |-> "BufferFull"]
    ELSE [pc |-> "load_head", result |-> "none"]

\* claim: what the backpressure branch does to the call: it retries
BackpressureOutcome(attempts) ==
    [pc |-> "load_head", result |-> "none"]

\* claim: state = slot.state.load(); Free goes on to the CAS, anything else
\* is the backpressure branch
P_LoadState(p) ==
    /\ prod[p].pc = "load_state"
    /\ IF slots[prod[p].slot_idx].state = Free
       THEN prod' = [prod EXCEPT ![p].pc = "cas"]
       ELSE prod' = [prod EXCEPT
                ![p].pc = BackpressureOutcome(prod[p].attempts).pc,
                ![p].result = BackpressureOutcome(prod[p].attempts).result,
                ![p].attempts = Backoff(prod[p].attempts)]
    /\ UNCHANGED <<slots, head, clock, seqr, stop, cons,
                   completed, claims, promotions, received, handle,
                   build>>

\* a plain store in place of the CAS: it "succeeds" whatever the slot holds
CasAlways(current) == TRUE

\* compare_exchange_weak(Free, Claimed) can succeed only on a Free slot
CasMaySucceed(current) == current = Free

\* claim: the CAS wins the slot
P_CasOk(p) ==
    /\ prod[p].pc = "cas"
    /\ CasMaySucceed(slots[prod[p].slot_idx].state)
    /\ slots' = [slots EXCEPT ![prod[p].slot_idx].state = Claimed]
    /\ prod' = [prod EXCEPT ![p].pc = "fetch_add"]
    /\ claims' = [claims EXCEPT ![prod[p].slot_idx] = Append(@, p)]
    /\ UNCHANGED <<head, clock, seqr, stop, cons,
                   completed, promotions, received, handle, build>>

\* claim: the CAS fails (lost the race, or the weak CAS failed spuriously)
P_CasFail(p) ==
    /\ prod[p].pc = "cas"
    /\ prod' = [prod EXCEPT ![p].pc = "load_head"]
    /\ UNCHANGED <<slots, head, clock, seqr, stop, cons,
                   completed, claims, promotions, received, handle,
                   build>>

\* a claim that returns the slot and leaves head where it was
P_FetchAddNothing(p) ==
    /\ prod[p].pc = "fetch_add"
    /\ prod' = [prod EXCEPT ![p].pc = "write_payload"]
    /\ UNCHANGED <<slots, head, clock, seqr, stop, cons,
                   completed, claims, promotions, received, handle, build>>

\* claim: head.fetch_add(1), then return the slot
P_FetchAdd(p) ==
    /\ prod[p].pc = "fetch_add"
    /\ head' = head + 1
    /\ prod' = [prod EXCEPT ![p].pc = "write_payload"]
    /\ UNCHANGED <<slots, clock, seqr, stop, cons,
                   completed, claims, promotions, received, handle,
                   build>>

\* the slot looked up again from head after the fetch_add
SlotRefFromHead(p) == BitAnd(head, Mask)

\* claim: the SlotRef it returns, the slot whose CAS succeeded
SlotRef(p) == prod[p].slot_idx

\* push: payload.write(event)
P_WritePayload(p) ==
    /\ prod[p].pc = "write_payload"
    /\ slots' = [slots EXCEPT ![SlotRef(p)].payload = {prod[p].event}]
    /\ prod' = [prod EXCEPT ![p].pc = "write_meta"]
    /\ UNCHANGED <<head, clock, seqr, stop, cons,
                   completed, claims, promotions, received, handle,
                   build>>

\* a counter that runs down
TickDown(now) == now - 1

\* timestamp(): the counter it reads only goes up
Tick(now) == now + 1

\* push: timestamp = timestamp(); producer_id = self.id
P_WriteMeta(p) ==
    /\ prod[p].pc = "write_meta"
    /\ slots' = [slots EXCEPT ![SlotRef(p)].timestamp = clock,
                              ![SlotRef(p)].producer_id = ProducerId(p)]
    /\ clock' = Tick(clock)
    /\ prod' = [prod EXCEPT ![p].pc = "publish", ![p].ts = clock]
    /\ UNCHANGED <<head, seqr, stop, cons,
                   completed, claims, promotions, received, handle,
                   build>>

\* push: state.store(Published); Ok(())
P_Publish(p) ==
    /\ prod[p].pc = "publish"
    /\ slots' = [slots EXCEPT ![SlotRef(p)].state = Published]
    /\ prod' = [prod EXCEPT ![p] = [NewProducer EXCEPT !.result = "Ok"]]
    /\ completed' = Append(completed, [producer |-> p,
                                       value |-> prod[p].event,
                                       slot |-> prod[p].slot_idx,
                                       timestamp |-> prod[p].ts,
                                       producer_id |-> ProducerId(p)])
    /\ UNCHANGED <<head, clock, seqr, stop, cons,
                   claims, promotions, received, handle, build>>

(***************************************************************************)
(* Buffer::start, SequencerHandle::stop, sequencer_loop                    *)
(***************************************************************************)
\* Buffer::start -> start_sequencer: a fresh stop flag, a spawned thread and
\* the SequencerHandle returned to the caller
Start(s) ==
    /\ seqr[s].pc = "unstarted"
    /\ seqr' = [seqr EXCEPT ![s] = [NewSequencer EXCEPT !.pc = "check"]]
    /\ stop' = [stop EXCEPT ![s] = FALSE]
    /\ handle' = [handle EXCEPT ![s] = "held"]
    /\ UNCHANGED <<slots, head, clock, prod, cons,
                   completed, claims, promotions, received, build>>

\* SequencerHandle::stop(&self): the caller still owns the handle
Stop(s) ==
    /\ handle[s] = "held"
    /\ stop' = [stop EXCEPT ![s] = TRUE]
    /\ UNCHANGED <<slots, head, clock, prod, seqr, cons,
                   completed, claims, promotions, received, handle,
                   build>>

\* a loop that never looks at the flag its handle sets
S_CheckOwnFlag(s) ==
    /\ seqr[s].pc = "check"
    /\ seqr' = [seqr EXCEPT ![s].pc = "load"]
    /\ UNCHANGED <<slots, head, clock, prod, stop, cons,
                   completed, claims, promotions, received, handle,
                   build>>

\* sequencer_loop: while !stop.load()
S_Check(s) ==
    /\ seqr[s].pc = "check"
    /\ seqr' = [seqr EXCEPT ![s].pc = IF stop[s] THEN "exited" ELSE "load"]
    /\ UNCHANGED <<slots, head, clock, prod, stop, cons,
                   completed, claims, promotions, received, handle,
                   build>>

\* promoting every slot a producer has touched
IsPromotableLoose(state) == state >= Claimed

\* sequencer_loop: the match arm that promotes
IsPromotable(state) == state = Published

\* stepping over a slot that is still being written
SkipClaimed(scan_pos, state) ==
    IF state = Claimed THEN scan_pos + 1 ELSE scan_pos

\* stepping over a slot that is already Sequenced
SkipSequenced(scan_pos, state) ==
    IF state = Sequenced THEN scan_pos + 1 ELSE scan_pos

\* sequencer_loop: scan_pos after an iteration that promoted nothing
SpinScanPos(scan_pos, state) == scan_pos

\* sequencer_loop: state = slot.state.load(); Published goes on to the two
\* stores, Claimed, Free and Sequenced spin in place
S_Load(s) ==
    /\ seqr[s].pc = "load"
    /\ LET state == slots[BitAnd(seqr[s].scan_pos, Mask)].state IN
         IF IsPromotable(state)
         THEN seqr' = [seqr EXCEPT ![s].pc = "stamp"]
         ELSE seqr' = [seqr EXCEPT ![s].pc = "check",
                          ![s].scan_pos = SpinScanPos(seqr[s].scan_pos, state)]
    /\ UNCHANGED <<slots, head, clock, prod, stop, cons,
                   completed, claims, promotions, received, handle,
                   build>>

\* next_seq += 2
NextSeqByTwo(next_seq) == next_seq + 2

\* sequencer_loop: next_seq += 1
NextSeq(next_seq) == next_seq + 1

\* sequencer_loop: slot.sequence.store(next_seq); next_seq += 1
S_Stamp(s) ==
    /\ seqr[s].pc = "stamp"
    /\ slots' = [slots EXCEPT
           ![BitAnd(seqr[s].scan_pos, Mask)].sequence = seqr[s].next_seq]
    /\ seqr' = [seqr EXCEPT ![s].pc = "promote",
                            ![s].next_seq = NextSeq(seqr[s].next_seq)]
    /\ UNCHANGED <<head, clock, prod, stop, cons,
                   completed, claims, promotions, received, handle,
                   build>>

\* sequencer_loop: slot.state.store(Sequenced); scan_pos += 1
S_Promote(s) ==
    /\ seqr[s].pc = "promote"
    /\ LET idx == BitAnd(seqr[s].scan_pos, Mask) IN
         /\ slots' = [slots EXCEPT ![idx].state = Sequenced]
         /\ promotions' = Append(promotions,
                [slot |-> idx, sequence |-> slots[idx].sequence])
    /\ seqr' = [seqr EXCEPT ![s].pc = "check",
                            ![s].scan_pos = seqr[s].scan_pos + 1]
    /\ UNCHANGED <<head, clock, prod, stop, cons,
                   completed, claims, received, handle, build>>

\* a join that stops the sequencer first, as drop does
JoinStops(s) ==
    /\ handle[s] = "held"
    /\ handle' = [handle EXCEPT ![s] = "joining"]
    /\ stop' = [stop EXCEPT ![s] = TRUE]
    /\ UNCHANGED <<slots, head, clock, prod, seqr, cons,
                   completed, claims, promotions, received, build>>

\* SequencerHandle::join(mut self): the handle is moved into the call, which
\* takes the JoinHandle and blocks in thread.join()
Join(s) ==
    /\ handle[s] = "held"
    /\ handle' = [handle EXCEPT ![s] = "joining"]
    /\ UNCHANGED <<slots, head, clock, prod, seqr, stop, cons,
                   completed, claims, promotions, received, build>>

\* SequencerHandle::join: thread.join() returns once sequencer_loop has
\* returned (the loop has no panicking path, so never with Err), join
\* returns Ok(()), and the handle it consumed is dropped: Drop::drop stores
\* the stop flag and finds the JoinHandle already taken
JoinReturn(s) ==
    /\ handle[s] = "joining"
    /\ seqr[s].pc = "exited"
    /\ handle' = [handle EXCEPT ![s] = "Ok"]
    /\ stop' = [stop EXCEPT ![s] = TRUE]
    /\ UNCHANGED <<slots, head, clock, prod, seqr, cons,
                   completed, claims, promotions, received, build>>

\* Drop for SequencerHandle, on a handle that goes out of scope unjoined:
\* stores the stop flag, takes the JoinHandle and blocks in thread.join()
Drop(s) ==
    /\ handle[s] = "held"
    /\ stop' = [stop EXCEPT ![s] = TRUE]
    /\ handle' = [handle EXCEPT ![s] = "dropping"]
    /\ UNCHANGED <<slots, head, clock, prod, seqr, cons,
                   completed, claims, promotions, received, build>>

\* Drop for SequencerHandle: thread.join() returns, its result is ignored
DropReturn(s) ==
    /\ handle[s] = "dropping"
    /\ seqr[s].pc = "exited"
    /\ handle' = [handle EXCEPT ![s] = "dropped"]
    /\ UNCHANGED <<slots, head, clock, prod, seqr, stop, cons,
                   completed, claims, promotions, received, build>>

(***************************************************************************)
(* BufferBuilder::capacity, BufferBuilder::build                           *)
(***************************************************************************)
\* builder.capacity(c): self.capacity = Some(c)
B_Capacity(c) ==
    /\ build.pc = "builder"
    /\ build' = [build EXCEPT !.capacity = <<c>>]
    /\ UNCHANGED <<slots, head, clock, prod, seqr, stop, handle, cons,
                   completed, claims, promotions, received>>

\* builder.build(): consumes the builder and returns Buffer::new's Result
B_Build ==
    /\ build.pc = "builder"
    /\ build' = [build EXCEPT !.pc = "returned",
                              !.ret = BuilderBuild(build.capacity)]
    /\ UNCHANGED <<slots, head, clock, prod, seqr, stop, handle, cons,
                   completed, claims, promotions, received>>

(***************************************************************************)
(* Consumer::try_next                                                      *)
(***************************************************************************)
\* reading every slot that is not Free
IsReadableLoose(state) == state # Free

\* try_next: the state a slot must be in to be read
IsReadable(state) == state = Sequenced

\* try_next: slot_idx = cursor & mask; state = slot.state.load();
\* not Sequenced returns None
T_LoadState(c) ==
    /\ cons[c].pc = "idle"
    /\ LET idx == BitAnd(cons[c].cursor, Mask) IN
         IF IsReadable(slots[idx].state)
         THEN cons' = [cons EXCEPT ![c].pc = "load_seq", ![c].slot_idx = idx]
         ELSE cons' = cons
    /\ UNCHANGED <<slots, head, clock, prod, seqr, stop,
                   completed, claims, promotions, received, handle,
                   build>>

\* try_next without the comparison of seq to the cursor
T_LoadSeqUnchecked(c) ==
    /\ cons[c].pc = "load_seq"
    /\ cons' = [cons EXCEPT ![c].pc = "read",
                            ![c].seq = slots[cons[c].slot_idx].sequence]
    /\ UNCHANGED <<slots, head, clock, prod, seqr, stop,
                   completed, claims, promotions, received, handle, build>>

\* try_next: seq = slot.sequence.load(); seq != cursor returns None
T_LoadSeq(c) ==
    /\ cons[c].pc = "load_seq"
    /\ LET seq == slots[cons[c].slot_idx].sequence IN
         IF seq # cons[c].cursor
         THEN cons' = [cons EXCEPT ![c].pc = "idle", ![c].slot_idx = 0]
         ELSE cons' = [cons EXCEPT ![c].pc = "read", ![c].seq = seq]
    /\ UNCHANGED <<slots, head, clock, prod, seqr, stop,
                   completed, claims, promotions, received, handle,
                   build>>

\* assume_init_read of a cell: the value written, or anything at all when
\* the cell was never written
PayloadRead(payload) ==
    IF payload = Uninit THEN Values ELSE payload

\* the cursor left where it was
CursorStays(cursor) == cursor

\* try_next: self.cursor += 1
NextCursor(cursor) == cursor + 1

\* a destructive read: the slot is handed back as Free once it is read
T_ReadConsuming(c) ==
    /\ cons[c].pc = "read"
    /\ \E v \in PayloadRead(slots[cons[c].slot_idx].payload) :
         received' = [received EXCEPT ![c] = Append(@,
             [sequence |-> cons[c].seq,
              timestamp |-> slots[cons[c].slot_idx].timestamp,
              producer_id |-> slots[cons[c].slot_idx].producer_id,
              payload |-> v])]
    /\ cons' = [cons EXCEPT ![c] = [NewConsumer EXCEPT
                   !.cursor = NextCursor(cons[c].cursor)]]
    /\ slots' = [slots EXCEPT ![cons[c].slot_idx].state = Free]
    /\ UNCHANGED <<head, clock, prod, seqr, stop,
                   completed, claims, promotions, handle, build>>

\* try_next: snapshot payload, timestamp and producer_id, build the event,
\* advance the cursor, return Some(event)
T_Read(c) ==
    /\ cons[c].pc = "read"
    /\ \E v \in PayloadRead(slots[cons[c].slot_idx].payload) :
         received' = [received EXCEPT ![c] = Append(@,
             [sequence |-> cons[c].seq,
              timestamp |-> slots[cons[c].slot_idx].timestamp,
              producer_id |-> slots[cons[c].slot_idx].producer_id,
              payload |-> v])]
    /\ cons' = [cons EXCEPT ![c] = [NewConsumer EXCEPT
                   !.cursor = NextCursor(cons[c].cursor)]]
    /\ UNCHANGED <<slots, head, clock, prod, seqr, stop,
                   completed, claims, promotions, handle, build>>

Next ==
    \/ \E p \in Producers, v \in Values : P_Push(p, v)
    \/ \E p \in Producers : P_LoadHead(p)
    \/ \E p \in Producers : P_LoadState(p)
    \/ \E p \in Producers : P_CasOk(p)
    \/ \E p \in Producers : P_CasFail(p)
    \/ \E p \in Producers : P_FetchAdd(p)
    \/ \E p \in Producers : P_WritePayload(p)
    \/ \E p \in Producers : P_WriteMeta(p)
    \/ \E p \in Producers : P_Publish(p)
    \/ \E s \in SeqIds : Start(s)
    \/ \E s \in SeqIds : Stop(s)
    \/ \E s \in SeqIds : S_Check(s)
    \/ \E s \in SeqIds : S_Load(s)
    \/ \E s \in SeqIds : S_Stamp(s)
    \/ \E s \in SeqIds : S_Promote(s)
    \/ \E c \in Consumers : T_LoadState(c)
    \/ \E c \in Consumers : T_LoadSeq(c)
    \/ \E c \in Consumers : T_Read(c)

Spec == Init /\ [][Next]_vars

(***************************************************************************)
(* The run of tests/concurrency.rs: producers push, the sequencer is       *)
(* started, one consumer polls try_next.  Scheduling is fair: every thread *)
(* that can take a step of the call it is in eventually takes one.         *)
(* Starting a push, Buffer::start and stop are up to the caller and carry  *)
(* no fairness.                                                            *)
(***************************************************************************)
ProducerStep(p) ==
    \/ P_LoadHead(p) \/ P_LoadState(p) \/ P_CasOk(p) \/ P_CasFail(p)
    \/ P_FetchAdd(p) \/ P_WritePayload(p) \/ P_WriteMeta(p) \/ P_Publish(p)

SequencerStep(s) == S_Check(s) \/ S_Load(s) \/ S_Stamp(s) \/ S_Promote(s)

ConsumerStep(c) == T_LoadState(c) \/ T_LoadSeq(c) \/ T_Read(c)

Pollers == {CHOOSE c \in Consumers : TRUE}

FairNext ==
    \/ \E p \in Producers, v \in Values : P_Push(p, v)
    \/ \E p \in Producers : ProducerStep(p)
    \/ \E s \in SeqIds : Start(s)
    \/ \E s \in SeqIds : Stop(s)
    \/ \E s \in SeqIds : SequencerStep(s)
    \/ \E c \in Pollers : ConsumerStep(c)

FairSpec ==
    /\ Init /\ [][FairNext]_vars
    /\ \A p \in Producers : WF_vars(ProducerStep(p))
    /\ \A s \in SeqIds : WF_vars(SequencerStep(s))
    /\ \A c \in Pollers : WF_vars(ConsumerStep(c))

(***************************************************************************)
(* The runs of the sequencer tests: producers push, the sequencer is       *)
(* started, the caller stops it when it likes and joins it, or lets the    *)
(* handle drop.  The sequencer thread, the producers and a join that can   *)
(* return are scheduled fairly; calling stop and join, and dropping the    *)
(* handle, is up to the caller.                                            *)
(***************************************************************************)
StopNext ==
    \/ \E p \in Producers, v \in Values : P_Push(p, v)
    \/ \E p \in Producers : ProducerStep(p)
    \/ \E s \in SeqIds : Start(s)
    \/ \E s \in SeqIds : Stop(s)
    \/ \E s \in SeqIds : SequencerStep(s)
    \/ \E s \in SeqIds : Join(s)
    \/ \E s \in SeqIds : JoinReturn(s)
    \/ \E s \in SeqIds : Drop(s)
    \/ \E s \in SeqIds : DropReturn(s)

StopSpec ==
    /\ Init /\ [][StopNext]_vars
    /\ \A p \in Producers : WF_vars(ProducerStep(p))
    /\ \A s \in SeqIds : WF_vars(SequencerStep(s))
    /\ \A s \in SeqIds : WF_vars(JoinReturn(s))
    /\ \A s \in SeqIds : WF_vars(DropReturn(s))

(***************************************************************************)
(* Producers on their own schedule: the producer threads are scheduled     *)
(* fairly and a weak CAS on a Free slot does not fail for ever; the        *)
(* sequencer may be started, stopped, run or starve, and the consumer may  *)
(* poll or not.                                                            *)
(***************************************************************************)
PushNext ==
    \/ \E p \in Producers, v \in Values : P_Push(p, v)
    \/ \E p \in Producers : ProducerStep(p)
    \/ \E s \in SeqIds : Start(s)
    \/ \E s \in SeqIds : Stop(s)
    \/ \E s \in SeqIds : SequencerStep(s)
    \/ \E c \in Pollers : ConsumerStep(c)

PushSpec ==
    /\ Init /\ [][PushNext]_vars
    /\ \A p \in Producers : WF_vars(ProducerStep(p))
    /\ \A p \in Producers : SF_vars(P_CasOk(p))

(***************************************************************************)
(* Buffer::start called more than once on one buffer: every call spawns a  *)
(* sequencer thread with its own stop flag, scan_pos and next_seq, over    *)
(* the same slots.  The calls may come at any time, so the threads run     *)
(* side by side or one after the other has been stopped.  One producer    *)
(* pushes and one consumer polls.                                          *)
(***************************************************************************)
Starts == SeqIds \cup {"second"}

Writers == {CHOOSE p \in Producers : TRUE}

RestartInit ==
    /\ build = BuiltWith(Usize(Capacity))
    /\ slots = [i \in SlotIdx |-> NewSlot]
    /\ head = 0
    /\ clock = 1
    /\ prod = [p \in Producers |-> NewProducer]
    /\ seqr = [s \in Starts |-> NewSequencer]
    /\ stop = [s \in Starts |-> FALSE]
    /\ handle = [s \in Starts |-> "none"]
    /\ cons = [c \in Consumers |-> NewConsumer]
    /\ completed = <<>>
    /\ claims = [i \in SlotIdx |-> <<>>]
    /\ promotions = <<>>
    /\ received = [c \in Consumers |-> <<>>]

RestartNext ==
    \/ \E p \in Writers, v \in Values : P_Push(p, v)
    \/ \E p \in Writers : ProducerStep(p)
    \/ \E s \in Starts : Start(s)
    \/ \E s \in Starts : Stop(s)
    \/ \E s \in Starts : SequencerStep(s)
    \/ \E c \in Pollers : ConsumerStep(c)

RestartSpec == RestartInit /\ [][RestartNext]_vars

(***************************************************************************)
(* Building a buffer: builder(), any number of capacity(c) calls, build(). *)
(***************************************************************************)
BuildNext ==
    \/ \E c \in Requests : B_Capacity(c)
    \/ B_Build

BuildSpec == BuildInit /\ [][BuildNext]_vars

(***************************************************************************)
(* Helpers for the properties                                              *)
(***************************************************************************)
ClaimLoop == {"load_head", "load_state", "cas"}
Holding(p) == prod[p].pc \in {"fetch_add", "write_payload", "write_meta", "publish"}
SlotsIn(states) == {i \in SlotIdx : slots[i].state \in states}
CompletedOf(v) == {k \in 1 .. Len(completed) : completed[k].value = v}
PromotionsOf(i) == {k \in 1 .. Len(promotions) : promotions[k].slot = i}
BufferFull == SlotsIn({Free}) = {}
AtFetchAdd == {p \in Producers : prod[p].pc = "fetch_add"}
NonFree == SlotIdx \ SlotsIn({Free})
Reread(p) ==
    /\ prod[p].pc = "load_head" /\ prod[p].pos # -1
    /\ prod'[p].pc = "load_state"
WinnerOver(p) ==
    {q \in Producers \ {p} :
        /\ prod[p].pos \in SlotIdx
        /\ claims[prod[p].pos] = <<q>>}
\* a sequencer thread, not yet spawned or in its loop, that is at scan
\* position 0 outside the two stores while slot 0 is Sequenced
StuckAtZero(s) ==
    /\ slots[0].state = Sequenced
    /\ seqr[s].scan_pos = 0
    /\ seqr[s].pc \in {"unstarted", "check", "load", "exited"}

ClaimsWon ==
    Cardinality(UNION {{<<i, k>> : k \in 1 .. Len(claims[i])} : i \in SlotIdx})

(***************************************************************************)
(* C1: eventual delivery.  With the sequencer started and never stopped,   *)
(* if the pushes that return come to K in total, then a consumer that      *)
(* keeps calling try_next ends up having received exactly K events.  (The  *)
(* stop flag is never cleared, so "never stopped" is "in the end not       *)
(* stopped".)                                                              *)
(***************************************************************************)
C1_EventualDelivery ==
    \A c \in Pollers : \A k \in 0 .. Capacity :
        <>[](/\ \A s \in SeqIds : seqr[s].pc # "unstarted" /\ ~stop[s]
             /\ Len(completed) = k)
            => <>[](Len(received[c]) = k)

\* both producers have had pushes return, the buffer is full, the sequencer
\* is running and the consumer has received all of the events
C1_Witness ==
    /\ Len(completed) = Capacity
    /\ {completed[k].producer : k \in 1 .. Len(completed)} = Producers
    /\ \A s \in SeqIds : ~stop[s] /\ seqr[s].pc \in {"check", "load"}
    /\ \E c \in Pollers : Len(received[c]) = Capacity

(***************************************************************************)
(* C2: no event is dropped or overwritten.  Every push that returned left  *)
(* its value in the slot it claimed, that slot is Published or Sequenced,  *)
(* no two returned pushes share a slot, and the payloads held in Published *)
(* or Sequenced slots are, value by value and with multiplicity, exactly   *)
(* the values of the pushes that returned.                                 *)
(***************************************************************************)
C2_NoEventLost ==
    /\ \A k \in 1 .. Len(completed) :
          /\ slots[completed[k].slot].state \in {Published, Sequenced}
          /\ slots[completed[k].slot].payload = {completed[k].value}
    /\ \A j, k \in 1 .. Len(completed) :
          completed[j].slot = completed[k].slot => j = k
    /\ \A i \in SlotsIn({Published, Sequenced}) :
          \E v \in Values : slots[i].payload = {v}
    /\ \A v \in Values :
          Cardinality({i \in SlotsIn({Published, Sequenced}) :
                          slots[i].payload = {v}})
            = Cardinality(CompletedOf(v))

\* two pushes of the same value by different producers returned, one slot
\* is already Sequenced and the other still Published
C2_Witness ==
    /\ Len(completed) = 2
    /\ completed[1].value = completed[2].value
    /\ completed[1].producer # completed[2].producer
    /\ SlotsIn({Sequenced}) # {}
    /\ SlotsIn({Published}) # {}

(***************************************************************************)
(* C3: every consumer sees the sequences 0, 1, 2, ... with no gap: the     *)
(* n-th event try_next returned to it has sequence n-1, and its cursor is  *)
(* the number of events it was given (one step of the cursor per event).   *)
(***************************************************************************)
C3_InOrderNoGaps ==
    \A c \in Consumers :
        /\ cons[c].cursor = Len(received[c])
        /\ \A n \in 1 .. Len(received[c]) : received[c][n].sequence = n - 1

\* one consumer has read the whole buffer while the other has read one event
C3_Witness ==
    \E c, d \in Consumers :
        /\ Len(received[c]) = Capacity
        /\ Len(received[d]) = 1

(***************************************************************************)
(* C4: replay determinism.  At every position two consumers have both      *)
(* read, they were given the same record: sequence, timestamp, producer_id *)
(* and payload.                                                            *)
(***************************************************************************)
C4_ReplayDeterminism ==
    \A c, d \in Consumers :
        \A n \in 1 .. Len(received[c]) :
            n <= Len(received[d]) => received[c][n] = received[d][n]

\* both consumers have read the same two events, while a third push is
\* still spinning
C4_Witness ==
    /\ \A c \in Consumers : Len(received[c]) = 2
    /\ received[1][1].payload # received[1][2].payload
    /\ \E p \in Producers : prod[p].pc \in ClaimLoop

(***************************************************************************)
(* C5: slot states move one way.  In every step each slot keeps its state  *)
(* or takes one edge Free -> Claimed -> Published -> Sequenced.            *)
(***************************************************************************)
OneEdge(old, new) ==
    \/ new = old
    \/ old = Free /\ new = Claimed
    \/ old = Claimed /\ new = Published
    \/ old = Published /\ new = Sequenced

C5_OneWay ==
    [][\A i \in SlotIdx : OneEdge(slots[i].state, slots'[i].state)]_vars

\* every slot has gone the whole way
C5_Witness == SlotsIn({Sequenced}) = SlotIdx
(***************************************************************************)
(* C6: exclusive claim.  The CAS on a slot is won by exactly one producer, *)
(* two producers never hold the same slot between their CAS and their      *)
(* Published store, and the store that takes a slot from Claimed to        *)
(* Published is made by the producer whose CAS claimed it.                 *)
(***************************************************************************)
C6_ExclusiveClaim ==
    /\ [](/\ \A i \in SlotIdx :
               /\ Len(claims[i]) <= 1
               /\ slots[i].state # Free => Len(claims[i]) = 1
          /\ \A p, q \in Producers :
               (p # q /\ Holding(p) /\ Holding(q))
                   => prod[p].slot_idx # prod[q].slot_idx
          /\ \A p \in Producers :
               Holding(p) => claims[prod[p].slot_idx] = <<p>>)
    /\ [][\A i \in SlotIdx :
             (slots[i].state = Claimed /\ slots'[i].state = Published)
                 => \E p \in Producers :
                        /\ prod[p].pc = "publish"
                        /\ prod'[p].pc = "idle"
                        /\ claims[i] = <<p>>]_vars

\* both producers hold a slot at once, one each
C6_Witness ==
    /\ \A p \in Producers : Holding(p)
    /\ prod[1].slot_idx # prod[2].slot_idx

(***************************************************************************)
(* C7: sequence numbers are contiguous from 0.  The k-th promotion stamps  *)
(* k-1, and the sequences of the Sequenced slots are 0 .. m-1, each once.  *)
(***************************************************************************)
C7_ContiguousSequences ==
    /\ \A k \in 1 .. Len(promotions) : promotions[k].sequence = k - 1
    /\ {slots[i].sequence : i \in SlotsIn({Sequenced})}
           = 0 .. (Cardinality(SlotsIn({Sequenced})) - 1)

\* the sequencer has promoted two slots
C7_Witness ==
    /\ Len(promotions) = 2
    /\ Cardinality(SlotsIn({Sequenced})) = 2

(***************************************************************************)
(* C8: a Sequenced slot carries its ring index as sequence, whatever order *)
(* the slots were published in, and no slot is promoted twice.             *)
(***************************************************************************)
C8_SequenceIsIndex ==
    /\ \A i \in SlotsIn({Sequenced}) : slots[i].sequence = i
    /\ \A i \in SlotIdx : Cardinality(PromotionsOf(i)) <= 1

\* slot 1 was published before slot 0, and both are Sequenced
C8_Witness ==
    /\ Len(completed) >= 2
    /\ completed[1].slot = 1
    /\ completed[2].slot = 0
    /\ {0, 1} \subseteq SlotsIn({Sequenced})

(***************************************************************************)
(* C9: the buffer is one-shot.  No more than `capacity` pushes ever        *)
(* return, and once no slot is Free a push that is in claim stays in claim *)
(* at every step, whatever the sequencer and the consumers have done.      *)
(***************************************************************************)
C9_OneShot ==
    /\ [](Len(completed) <= Capacity)
    /\ [][BufferFull =>
             \A p \in Producers :
                 prod[p].pc \in ClaimLoop => prod'[p].pc \in ClaimLoop]_vars

\* everything is Sequenced and read by every consumer, and a further push
\* is spinning in claim with its spin budget used up at least once
C9_Witness ==
    /\ SlotsIn({Sequenced}) = SlotIdx
    /\ \A c \in Consumers : Len(received[c]) = Capacity
    /\ \E p \in Producers :
           prod[p].pc = "load_state" /\ prod[p].attempts = MAX_SPIN

(***************************************************************************)
(* C10: push never reports an error.  A push call that has returned has    *)
(* returned Ok, with the buffer full and the sequencer stopped included.   *)
(***************************************************************************)
C10_PushNeverErrs ==
    \A p \in Producers : prod[p].result \in {"none", "Ok"}

\* the buffer is full, the sequencer has been stopped and has exited, one
\* producer's push returned Ok and another is spinning in the backpressure
\* branch
C10_Witness ==
    /\ BufferFull
    /\ \A s \in SeqIds : stop[s] /\ seqr[s].pc = "exited"
    /\ \E p, q \in Producers :
           /\ prod[p].pc = "idle" /\ prod[p].result = "Ok"
           /\ prod[q].pc \in ClaimLoop /\ prod[q].attempts = MAX_SPIN

(***************************************************************************)
(* C11: try_next returns None and leaves the cursor where it is whenever   *)
(* the slot at cursor & mask is Free, Claimed or Published: from a state   *)
(* in which a consumer is about to call try_next on such a slot, no step   *)
(* moves that consumer into the read or hands it an event.  On a buffer    *)
(* whose slots are all still Free no consumer has been given anything.     *)
(***************************************************************************)
C11_NoneUnlessSequenced ==
    /\ [][\A c \in Consumers :
             (/\ cons[c].pc = "idle"
              /\ slots[BitAnd(cons[c].cursor, Mask)].state # Sequenced)
                 => /\ cons'[c] = cons[c]
                    /\ received'[c] = received[c]]_vars
    /\ [](SlotsIn({Free}) = SlotIdx =>
             \A c \in Consumers :
                 cons[c] = NewConsumer /\ received[c] = <<>>)

\* a consumer that has read one event is about to call try_next on a slot
\* that is Claimed, with the sequencer running
C11_Witness ==
    /\ \E c \in Consumers :
           /\ cons[c].pc = "idle"
           /\ cons[c].cursor = 1
           /\ Len(received[c]) = 1
           /\ slots[BitAnd(cons[c].cursor, Mask)].state = Claimed
    /\ \A s \in SeqIds : seqr[s].pc \in {"check", "load"} /\ ~stop[s]

(***************************************************************************)
(* C12: try_next is non-destructive and consumers are independent.  A step *)
(* that changes a consumer (its cursor, its place in try_next, the events  *)
(* it was given) changes no slot, not head, and no other consumer; the     *)
(* cursor moves by at most one; and the event it returns carries as        *)
(* sequence the number of events that consumer had read before, whatever   *)
(* the other consumers have read.                                          *)
(***************************************************************************)
C12_TryNextFrame ==
    [][\A c \in Consumers :
          (cons'[c] # cons[c] \/ received'[c] # received[c])
              => /\ slots' = slots
                 /\ head' = head
                 /\ \A d \in Consumers \ {c} :
                        cons'[d] = cons[d] /\ received'[d] = received[d]
                 /\ cons'[c].cursor \in {cons[c].cursor, cons[c].cursor + 1}
                 /\ received'[c] # received[c] =>
                        /\ Len(received'[c]) = Len(received[c]) + 1
                        /\ received'[c][Len(received'[c])].sequence
                               = Len(received[c])
                        /\ cons'[c].cursor = Len(received'[c])]_vars

\* consumer 1 has read two events and consumer 2 one, and consumer 2 is in
\* the middle of the call that returns sequence 1
C12_Witness ==
    /\ Len(received[1]) = 2
    /\ Len(received[2]) = 1
    /\ cons[2].pc = "read"
    /\ cons[2].seq = 1

(***************************************************************************)
(* C13: stopping is clean.  Under fair scheduling, once stop() has been    *)
(* called the sequencer thread leaves its loop, wherever it was (just      *)
(* started, spinning on a Free or on a Claimed slot, between its two       *)
(* stores), and a join() called on the stopped sequencer returns Ok.       *)
(***************************************************************************)
C13_StopIsClean ==
    \A s \in SeqIds :
        /\ stop[s] ~> (seqr[s].pc = "exited")
        /\ (stop[s] /\ handle[s] = "joining") ~> (handle[s] = "Ok")

\* the sequencer was stopped while it waited on slot 1, which a producer has
\* claimed and not yet published; it has exited and join has returned Ok
C13_Witness ==
    \A s \in SeqIds :
        /\ handle[s] = "Ok"
        /\ seqr[s].pc = "exited"
        /\ seqr[s].scan_pos = 1
        /\ slots[1].state = Claimed

(***************************************************************************)
(* Helpers for the build properties: the capacity build() was called with, *)
(* and two ways of saying what a usize is that do not go through the       *)
(* operators of Buffer::new.                                               *)
(***************************************************************************)
Requested ==
    IF build.capacity = <<>> THEN Usize(DefaultCapacity) ELSE build.capacity[1]
Exceeds2p30(c) == \E i \in c : i > 30 \/ (i = 30 /\ c # {30})
IsTwoToThe(c, exponents) == \E k \in exponents : c = {k}

(***************************************************************************)
(* C14 as stated: every capacity above 2^30 is answered with TooLarge,     *)
(* power of two or not.                                                    *)
(***************************************************************************)
C14_TooLargeAboveCeiling ==
    (build.pc = "returned" /\ Exceeds2p30(Requested))
        => build.ret.result = "TooLarge"

(***************************************************************************)
(* C14, amended: build answers TooLarge exactly for the powers of two      *)
(* above 2^30 (2^31 .. 2^63).  A capacity above 2^30 that is not a power   *)
(* of two is rejected as well, with InvalidCapacity: the power-of-two test *)
(* comes first.  No buffer is made in either case.                         *)
(***************************************************************************)
C14_TooLargeForPowersAboveCeiling ==
    build.pc = "returned" =>
        /\ build.ret.result = "TooLarge" <=> IsTwoToThe(Requested, 31 .. 63)
        /\ Exceeds2p30(Requested) =>
              /\ build.ret.buffer = <<>>
              /\ build.ret.result =
                    IF IsTwoToThe(Requested, Bits) THEN "TooLarge"
                    ELSE "InvalidCapacity"

\* build was called with 1 << 31 and has returned TooLarge
C14_Witness ==
    /\ build.pc = "returned"
    /\ build.capacity = <<Shl(Usize(1), 31)>>
    /\ build.ret.result = "TooLarge"

(***************************************************************************)
(* C15 as stated: a buffer build returns has a capacity 2^k with           *)
(* 2 <= 2^k <= 2^30 and mask = capacity - 1, and every other capacity,     *)
(* 1 included, is rejected with no buffer made.                            *)
(***************************************************************************)
C15_BuiltFromTwoUp ==
    build.pc = "returned" =>
        IF IsTwoToThe(Requested, 1 .. 30)
        THEN /\ build.ret.result = "Ok"
             /\ Len(build.ret.buffer) = 1
             /\ build.ret.buffer[1].capacity = Requested
             /\ \E k \in 1 .. 30 :
                    /\ Requested = {k}
                    /\ build.ret.buffer[1].mask = 0 .. (k - 1)
        ELSE /\ build.ret.result \in {"InvalidCapacity", "TooLarge"}
             /\ build.ret.buffer = <<>>

(***************************************************************************)
(* C15, amended: a buffer build returns has a capacity 2^k with            *)
(* 1 <= 2^k <= 2^30 and mask = capacity - 1; capacity 1 is accepted (mask  *)
(* 0).  Every other capacity (0, the non-powers of two, the powers above   *)
(* 2^30) is rejected with a BuildError and no buffer is made.              *)
(***************************************************************************)
C15_BuiltFromOneUp ==
    build.pc = "returned" =>
        IF IsTwoToThe(Requested, 0 .. 30)
        THEN /\ build.ret.result = "Ok"
             /\ Len(build.ret.buffer) = 1
             /\ build.ret.buffer[1].capacity = Requested
             /\ \E k \in 0 .. 30 :
                    /\ Requested = {k}
                    /\ build.ret.buffer[1].mask = 0 .. (k - 1)
        ELSE /\ build.ret.result \in {"InvalidCapacity", "TooLarge"}
             /\ build.ret.buffer = <<>>

\* build was called with capacity 1 and has returned a buffer of one slot
C15_Witness ==
    /\ build.pc = "returned"
    /\ build.capacity = <<Usize(1)>>
    /\ build.ret.result = "Ok"
    /\ build.ret.buffer[1].mask = {}

(***************************************************************************)
(* C16: the sequencer never leaps over a slot.  The Sequenced slots are a  *)
(* prefix 0 .. m-1 of the indices; a slot turns Sequenced only in a state  *)
(* where every lower slot already is, so the k-th promotion is of slot     *)
(* k-1; and in a state where the slot at the scan position is Free or      *)
(* Claimed no step promotes a slot or stores a sequence number, whatever   *)
(* the higher slots hold.                                                  *)
(***************************************************************************)
C16_NoLeap ==
    /\ [](/\ \A j \in SlotsIn({Sequenced}) :
               \A i \in 0 .. (j - 1) : slots[i].state = Sequenced
          /\ \A k \in 1 .. Len(promotions) : promotions[k].slot = k - 1)
    /\ [][\A j \in SlotIdx :
             (slots[j].state # Sequenced /\ slots'[j].state = Sequenced)
                 => \A i \in 0 .. (j - 1) : slots[i].state = Sequenced]_vars
    /\ [][\A s \in SeqIds :
             slots[BitAnd(seqr[s].scan_pos, Mask)].state \in {Free, Claimed}
                 => /\ \A i \in SlotIdx :
                           /\ slots'[i].sequence = slots[i].sequence
                           /\ slots'[i].state = Sequenced
                                  => slots[i].state = Sequenced
                    /\ promotions' = promotions
                    /\ seqr'[s].scan_pos = seqr[s].scan_pos]_vars

\* the sequencer has looked at slot 0, found it Claimed and gone back to the
\* top of its loop, while slot 1 is already Published
C16_Witness ==
    /\ slots[0].state = Claimed
    /\ slots[1].state = Published
    /\ \A s \in SeqIds : seqr[s].pc = "check" /\ seqr[s].scan_pos = 0
    /\ promotions = <<>>

(***************************************************************************)
(* C17: payload, timestamp and producer_id of a slot are written once,     *)
(* while the slot is Claimed, by the producer that claimed it.  A step     *)
(* that changes one of the three is a step of the claimer, on a Claimed    *)
(* slot that stays Claimed, into a cell not written before; a producer     *)
(* about to write holds a Claimed slot it claimed whose cell is still      *)
(* unwritten; and a slot that is Published or Sequenced keeps all three.   *)
(***************************************************************************)
C17_WrittenOnceWhileClaimed ==
    /\ [][\A i \in SlotIdx :
             (\/ slots'[i].payload # slots[i].payload
              \/ slots'[i].timestamp # slots[i].timestamp
              \/ slots'[i].producer_id # slots[i].producer_id)
                 => /\ slots[i].state = Claimed
                    /\ slots'[i].state = Claimed
                    /\ \E p \in Producers :
                           /\ claims[i] = <<p>>
                           /\ prod[p].slot_idx = i
                           /\ prod[p].pc \in {"write_payload", "write_meta"}
                           /\ prod'[p].pc # prod[p].pc
                    /\ slots'[i].payload # slots[i].payload
                           => slots[i].payload = Uninit
                    /\ slots'[i].timestamp # slots[i].timestamp
                           => slots[i].timestamp = 0]_vars
    /\ [](\A p \in Producers :
             /\ prod[p].pc = "write_payload" =>
                   /\ slots[SlotRef(p)].state = Claimed
                   /\ slots[SlotRef(p)].payload = Uninit
                   /\ claims[SlotRef(p)] = <<p>>
             /\ prod[p].pc = "write_meta" =>
                   /\ slots[SlotRef(p)].state = Claimed
                   /\ slots[SlotRef(p)].timestamp = 0
                   /\ claims[SlotRef(p)] = <<p>>)
    /\ [][\A i \in SlotsIn({Published, Sequenced}) :
             /\ slots'[i].payload = slots[i].payload
             /\ slots'[i].timestamp = slots[i].timestamp
             /\ slots'[i].producer_id = slots[i].producer_id]_vars

\* one slot is Sequenced and has been read, while the claimer of the other
\* has written its payload and not yet its timestamp
C17_Witness ==
    /\ \E p \in Producers :
           /\ prod[p].pc = "write_meta"
           /\ slots[SlotRef(p)].payload # Uninit
           /\ slots[SlotRef(p)].timestamp = 0
    /\ SlotsIn({Sequenced}) # {}
    /\ \E c \in Consumers : Len(received[c]) = 1

(***************************************************************************)
(* C18: a consumer never reads an unwritten or half-written slot.  Every   *)
(* event try_next returned with sequence s carries the value, the          *)
(* timestamp and the producer id of the push that claimed slot s, a push   *)
(* that has returned; and a consumer that has got as far as reading the    *)
(* fields is on a Sequenced slot whose payload and sequence are written.   *)
(***************************************************************************)
C18_ReadsWhatWasPushed ==
    /\ \A c \in Consumers : \A n \in 1 .. Len(received[c]) :
          \E k \in 1 .. Len(completed) :
              /\ completed[k].slot = received[c][n].sequence
              /\ claims[completed[k].slot] = <<completed[k].producer>>
              /\ received[c][n].payload = completed[k].value
              /\ received[c][n].timestamp = completed[k].timestamp
              /\ received[c][n].producer_id = completed[k].producer_id
    /\ \A c \in Consumers :
          cons[c].pc = "read" =>
              /\ slots[cons[c].slot_idx].state = Sequenced
              /\ slots[cons[c].slot_idx].payload # Uninit
              /\ slots[cons[c].slot_idx].sequence = cons[c].seq
              /\ \E k \in 1 .. Len(completed) :
                     completed[k].slot = cons[c].slot_idx

\* a consumer has read two events with different payloads and timestamps,
\* pushed by different producers, the later-stamped one in the lower slot
C18_Witness ==
    \E c \in Consumers :
        /\ Len(received[c]) = 2
        /\ received[c][1].payload # received[c][2].payload
        /\ received[c][1].timestamp > received[c][2].timestamp
        /\ claims[0] # claims[1]

(***************************************************************************)
(* C19: head counts claims.  head starts at 0 and moves only up, by one,   *)
(* in the step in which a producer that has won its CAS leaves it behind;  *)
(* at most one producer is between its CAS and that step; head is the      *)
(* number of CASes won less the producers in between, the CASes won are    *)
(* the slots that are not Free, and so                                     *)
(* (non-Free slots) - 1 <= head <= (non-Free slots) <= capacity.           *)
(***************************************************************************)
C19_HeadCountsClaims ==
    /\ [](/\ Cardinality(AtFetchAdd) <= 1
          /\ \A i \in SlotIdx :
                Len(claims[i]) = IF i \in NonFree THEN 1 ELSE 0
          /\ head = Cardinality(NonFree) - Cardinality(AtFetchAdd)
          /\ Cardinality(NonFree) - 1 <= head
          /\ head <= Cardinality(NonFree)
          /\ Cardinality(NonFree) <= Capacity)
    /\ [][/\ head' \in {head, head + 1}
          /\ head' # head =>
                \E p \in Producers :
                    /\ prod[p].pc = "fetch_add"
                    /\ prod'[p].pc = "write_payload"
                    /\ claims[prod[p].slot_idx] = <<p>>
          /\ \A p \in Producers :
                (prod[p].pc = "fetch_add" /\ prod'[p].pc # "fetch_add")
                    => head' = head + 1]_vars

\* the first claim is counted, and the producer that has just won the CAS on
\* the second slot has not yet added to head
C19_Witness ==
    /\ head = 1
    /\ Cardinality(NonFree) = 2
    /\ \E p \in Producers : prod[p].pc = "fetch_add" /\ prod[p].slot_idx = 1

(***************************************************************************)
(* C20: head is advanced after the claiming CAS and before the payload     *)
(* write and the Published store.  The step that advances head is made by  *)
(* the claimer of a Claimed slot whose payload is still unwritten; a       *)
(* producer past that step holds a slot below head; so every Published or  *)
(* Sequenced slot i has i < head.  (A slot below head may still be         *)
(* Claimed: the witness.)                                                  *)
(***************************************************************************)
C20_HeadBeforePublish ==
    /\ [](/\ \A i \in SlotsIn({Published, Sequenced}) : i < head
          /\ \A p \in Producers :
                prod[p].pc \in {"write_payload", "write_meta", "publish"}
                    => prod[p].slot_idx < head)
    /\ [][head' # head =>
             \E p \in Producers :
                 /\ prod[p].pc = "fetch_add"
                 /\ prod'[p].pc = "write_payload"
                 /\ slots[prod[p].slot_idx].state = Claimed
                 /\ slots[prod[p].slot_idx].payload = Uninit
                 /\ claims[prod[p].slot_idx] = <<p>>
                 /\ prod[p].slot_idx < head']_vars
    /\ [][\A i \in SlotIdx :
             (slots'[i].payload # slots[i].payload
                  \/ (slots[i].state = Claimed /\ slots'[i].state = Published))
                 => i < head]_vars

\* head has gone past both slots; slot 1 is still Claimed, its claimer
\* between the head increment and the payload write, and slot 0 is Published
C20_Witness ==
    /\ head = 2
    /\ slots[0].state = Published
    /\ slots[1].state = Claimed
    /\ slots[1].payload = Uninit
    /\ \E p \in Producers :
           prod[p].pc = "write_payload" /\ prod[p].slot_idx = 1

(***************************************************************************)
(* C21: slot index order is claim order.  The CAS that is the k-th to      *)
(* succeed (counting from 0) claims slot k, taking it from Free to         *)
(* Claimed, whatever head value the producer had read; so the slots that   *)
(* are not Free are a prefix 0 .. n-1, and a Sequenced slot, whose         *)
(* sequence is its index, carries its rank in claim order.                 *)
(***************************************************************************)
C21_IndexOrderIsClaimOrder ==
    /\ [][\A i \in SlotIdx :
             claims'[i] # claims[i]
                 => /\ i = ClaimsWon
                    /\ Len(claims'[i]) = Len(claims[i]) + 1
                    /\ slots[i].state = Free
                    /\ slots'[i].state = Claimed]_vars
    /\ [][\A i \in SlotIdx :
             (slots[i].state = Free /\ slots'[i].state # Free)
                 => claims'[i] # claims[i]]_vars
    /\ [](/\ NonFree = 0 .. (Cardinality(NonFree) - 1)
          /\ ClaimsWon = Cardinality(NonFree)
          /\ \A i \in SlotsIn({Sequenced}) : slots[i].sequence = i)

\* a producer still carries slot 0 from a head it read before the other
\* producer claimed slots 0 and 1, and is about to try its CAS on it
C21_Witness ==
    \E p, q \in Producers :
        /\ p # q
        /\ prod[p].pc = "cas" /\ prod[p].slot_idx = 0
        /\ claims[0] = <<q>> /\ claims[1] = <<q>>
        /\ head = 2

(***************************************************************************)
(* C22 as stated: a producer that lost the race for the slot its head      *)
(* value pointed at reads, the next time it loads head, a strictly greater *)
(* value.                                                                  *)
(***************************************************************************)
C22_LoserReadsGreaterHead ==
    [][\A p \in Producers :
          (Reread(p) /\ WinnerOver(p) # {})
              => prod'[p].pos > prod[p].pos]_vars

(***************************************************************************)
(* C22, amended: the winner of slot i had read head = i, like the loser.   *)
(* The loser's next read of head is never smaller than the one it raced    *)
(* on, and it is strictly greater exactly when the winner has already      *)
(* made the head.fetch_add of that claim; a loser that reads head again    *)
(* between the winner's CAS and the winner's fetch_add reads the same      *)
(* value again and goes round once more.                                   *)
(***************************************************************************)
C22_LoserAdvancesAfterFetchAdd ==
    /\ [](\A q \in Producers : Holding(q) => prod[q].pos = prod[q].slot_idx)
    /\ [][\A p \in Producers :
             (Reread(p) /\ WinnerOver(p) # {})
                 => /\ prod'[p].pos >= prod[p].pos
                    /\ prod'[p].pos = prod[p].pos
                           <=> \E q \in WinnerOver(p) :
                                   /\ prod[q].pc = "fetch_add"
                                   /\ prod[q].slot_idx = prod[p].pos]_vars

\* the loser has seen slot 0 taken, has read head again and got 0 again,
\* because the winner has not yet added to head
C22_Witness ==
    \E p, q \in Producers :
        /\ p # q
        /\ claims[0] = <<q>> /\ prod[q].pc = "fetch_add"
        /\ prod[p].pc = "load_state" /\ prod[p].pos = 0
        /\ prod[p].attempts = 1
        /\ head = 0

(***************************************************************************)
(* C23: sequence order is not publish-time order.  Timestamps can go down  *)
(* from one sequence to the next (the witness: the event with sequence 0   *)
(* carries a later timestamp than the event with sequence 1, its push      *)
(* having claimed first and written and returned last), and it takes two   *)
(* producers: among the slots written by one producer, and among the       *)
(* events of one producer that a consumer was given, a higher index or     *)
(* sequence never carries an earlier timestamp.                            *)
(***************************************************************************)
C23_InversionNeedsTwoProducers ==
    /\ \A i, j \in SlotsIn({Published, Sequenced}) :
          (i < j /\ claims[i] = claims[j])
              => slots[i].timestamp <= slots[j].timestamp
    /\ \A c \in Consumers : \A n, m \in 1 .. Len(received[c]) :
          (n < m /\ claims[received[c][n].sequence]
                        = claims[received[c][m].sequence])
              => received[c][n].timestamp <= received[c][m].timestamp

\* the push that claimed slot 1 returned first, the push that claimed slot 0
\* wrote its timestamp later, and a consumer has been given sequence 0 with
\* the larger timestamp and then sequence 1 with the smaller
C23_Witness ==
    /\ Len(completed) >= 2
    /\ completed[1].slot = 1 /\ completed[2].slot = 0
    /\ completed[1].producer # completed[2].producer
    /\ \E c \in Consumers :
           /\ Len(received[c]) = 2
           /\ received[c][1].sequence = 0 /\ received[c][2].sequence = 1
           /\ received[c][1].timestamp > received[c][2].timestamp

C26_JoinNeedsStop ==
    /\ [][\A s \in SeqIds :
             (handle[s] = "held" /\ handle'[s] = "joining")
                 => stop'[s] = stop[s]]_vars
    /\ [][\A s \in SeqIds :
             (~stop[s] /\ stop'[s]) => handle[s] = "held"]_vars
    /\ [][\A s \in SeqIds :
             (handle[s] = "joining" /\ ~stop[s])
                 => /\ handle'[s] = "joining"
                    /\ ~stop'[s]
                    /\ seqr'[s].pc \in {"check", "load", "stamp", "promote"}
                 ]_vars
    /\ [][\A s \in SeqIds :
             (handle[s] # "Ok" /\ handle'[s] = "Ok")
                 => stop[s] /\ seqr[s].pc = "exited"]_vars

\* join was called without stop: the sequencer has promoted every slot and
\* is still going round its loop, and join is still blocked
C26_Witness ==
    \A s \in SeqIds :
        /\ handle[s] = "joining"
        /\ ~stop[s]
        /\ SlotsIn({Sequenced}) = SlotIdx
        /\ seqr[s].pc = "load" /\ seqr[s].scan_pos = Capacity

(***************************************************************************)
(* C27: a sequencer does not resume after a restart.  A sequencer thread   *)
(* that is not yet started, or is at the top of its loop, with scan_pos 0  *)
(* while slot 0 is already Sequenced stays there for ever: its scan_pos    *)
(* stays 0, it never reaches the two stores, and its steps leave every     *)
(* slot as it is.  Once every sequencer thread is in that position or has  *)
(* exited, no slot changes from Published to Sequenced any more and no     *)
(* consumer receives anything beyond the slots already Sequenced.          *)
(***************************************************************************)
C27_RestartedSequencerIsStuck ==
    /\ [][\A s \in Starts :
             StuckAtZero(s)
                 => /\ StuckAtZero(s)'
                    /\ seqr'[s] # seqr[s] => slots' = slots]_vars
    /\ [][(\A s \in Starts : StuckAtZero(s) \/ seqr[s].pc = "exited")
             => /\ \A i \in SlotIdx :
                       slots[i].state = Published
                           => slots'[i].state = Published
                /\ \A c \in Consumers :
                       Len(received'[c]) <= Cardinality(SlotsIn({Sequenced}))
                ]_vars

\* the first sequencer promoted slot 0 and was stopped; the buffer was
\* started again and an event was published after that: the second
\* sequencer runs, at scan position 0, and the event waits in slot 1
C27_Witness ==
    /\ seqr["first"].pc = "exited"
    /\ seqr["second"].pc = "load" /\ ~stop["second"]
    /\ seqr["second"].scan_pos = 0
    /\ slots[0].state = Sequenced
    /\ slots[1].state = Published
    /\ \E c \in Pollers : Len(received[c]) = 1 /\ cons[c].cursor = 1

(***************************************************************************)
(* C28: calling Buffer::start more than once keeps the order.  With two    *)
(* sequencer threads over the same slots, started at any time, every       *)
(* Sequenced slot i has sequence i; once a slot is Sequenced, and so       *)
(* readable, no step changes its sequence or its state, although a second  *)
(* thread may store to it again; and every consumer has received the       *)
(* sequences 0, 1, 2, ... in order.                                        *)
(***************************************************************************)
C28_SecondStartKeepsOrder ==
    /\ [](\A i \in SlotIdx :
             slots[i].state = Sequenced => slots[i].sequence = i)
    /\ [][\A i \in SlotIdx :
             slots[i].state = Sequenced
                 => /\ slots'[i].state = Sequenced
                    /\ slots'[i].sequence = slots[i].sequence]_vars
    /\ [](\A c \in Consumers :
             \A n \in 1 .. Len(received[c]) :
                 received[c][n].sequence = n - 1)

\* both sequencer threads run; one has promoted slot 1 and the consumer has
\* received both events, the other saw slot 1 Published before that and has
\* just stored its sequence again
C28_Witness ==
    /\ \A s \in Starts : ~stop[s]
    /\ seqr["first"].scan_pos = Capacity
    /\ seqr["second"].pc = "promote" /\ seqr["second"].scan_pos = 1
    /\ slots[1].state = Sequenced
    /\ \E c \in Pollers : Len(received[c]) = Capacity
====
